---------------------------- MODULE Spec2Model ----------------------------
(***************************************************************************)
(* A model of class LabelLocator (src/source/LabelLocator.cpp), the label  *)
(* placement engine of qdcontour.                                          *)
(*                                                                         *)
(* Representation.                                                         *)
(*  - ParamCoordinates (std::map<int, std::map<float, list of XY> >) is a  *)
(*    function whose DOMAIN is the set of keys present; the std::map key   *)
(*    order is the order of the integers.                                  *)
(*  - A Coordinates list is a sequence of points <<x, y>>; an iterator     *)
(*    into it is an index, 0 standing for end().                           *)
(*  - distance() is sqrt of an integer; the model keeps the square         *)
(*    (Dist2).  sqrt is monotone, so comparing two distances is comparing  *)
(*    the squares, and "dist < t" for an integer-valued threshold t is     *)
(*    "t > 0 and Dist2 < t*t".  The sentinel -1 of the code is kept.       *)
(*  - Contour values (float) are modelled by small integers.               *)
(*  - A thrown std::runtime_error is recorded in outcome.                  *)
(***************************************************************************)
EXTENDS Integers, Sequences, FiniteSets, TLC

VARIABLES
  itHasBBox,                            \* LabelLocator::itHasBBox
  itsBBox,                              \* <<itsBBoxX1, itsBBoxY1, itsBBoxX2, itsBBoxY2>>
  itsMinDistanceToSameValue,
  itsMinDistanceToDifferentValue,
  itsMinDistanceToDifferentParameter,
  itsActiveParameter,
  itsPreviousCoordinates,
  itsCurrentCoordinates,
  pc,                                   \* position inside chooseLabels: "idle", "while", "for"
  candidates,                           \* local of chooseLabels
  choices,                              \* local of chooseLabels
  cit,                                  \* iterator of the for loop: <<key>> or <<>> for end()
  taken,                                \* the table the chooseLabels call made last took over
  chosen,                               \* that table was one chooseLabels returned, and add(),
                                        \* nextTime() and clear() were not called since
  cleared,                              \* clear() was called and parameter() not since
  stored,                               \* add() stored a point, and clear() was not called since
  call,                                 \* the public call made last, with its arguments
  outcome,                              \* how that call ended
  world,                                \* the inputs the callers offer (fixed by Init)
  itsCache,                             \* ArrowCache::itsCache
  files,                                \* the arrow files, as an ifstream finds them
  reads,                                \* how often find() read each file since the cache was empty
  found                                 \* the find() call made last: <<name, how it ended, contents>>

vars == <<itHasBBox, itsBBox, itsMinDistanceToSameValue,
          itsMinDistanceToDifferentValue, itsMinDistanceToDifferentParameter,
          itsActiveParameter, itsPreviousCoordinates, itsCurrentCoordinates,
          pc, candidates, choices, cit, taken, chosen, cleared, stored, call, outcome, world,
          itsCache, files, reads, found>>

config == <<itHasBBox, itsBBox, itsMinDistanceToSameValue,
            itsMinDistanceToDifferentValue, itsMinDistanceToDifferentParameter>>

locals == <<candidates, choices, cit>>

\* the arrow cache of the globals and what it reads
arrows == <<itsCache, files, reads, found>>

\* the label locator of the globals
locator == <<itHasBBox, itsBBox, itsMinDistanceToSameValue,
             itsMinDistanceToDifferentValue, itsMinDistanceToDifferentParameter,
             itsActiveParameter, itsPreviousCoordinates, itsCurrentCoordinates,
             pc, candidates, choices, cit, taken, chosen, cleared, stored, call, outcome>>

-----------------------------------------------------------------------------
(* Bounds of the model *)

\* find() is offered while it has read the file fewer times than this since
\* the cache was empty
MaxReads == 2

\* add() is offered while the current table holds fewer points than this
\* (one more in the worlds that keep a single frame)
MaxCands == 2

(* Program constants *)

badparameter == 0

DefaultMinDistanceToSameValue == 100

DefaultMinDistanceToDifferentValue == 50

DefaultMinDistanceToDifferentParameter == 50

-----------------------------------------------------------------------------
(* Containers *)

EmptyMap == <<>>

Put(m, k, v) == [x \in (DOMAIN m) \cup {k} |-> IF x = k THEN v ELSE m[x]]

Drop(m, ks) == [x \in (DOMAIN m) \ ks |-> m[x]]

MinKey(S) == CHOOSE x \in S : \A y \in S : x <= y

\* std::map::operator[] read after default construction of a missing entry
AtOrDefault(m, k, d) == IF k \in DOMAIN m THEN m[k] ELSE d

RECURSIVE SumLens(_, _)
SumLens(cc, ks) ==
  IF ks = {} THEN 0
  ELSE LET k == MinKey(ks) IN Len(cc[k]) + SumLens(cc, ks \ {k})

RECURSIVE SumCounts(_, _)
SumCounts(tab, ks) ==
  IF ks = {} THEN 0
  ELSE LET k == MinKey(ks)
       IN SumLens(tab[k], DOMAIN tab[k]) + SumCounts(tab, ks \ {k})

\* number of points held in a ParamCoordinates table
Count(tab) == SumCounts(tab, DOMAIN tab)

\* the points of a table, each with its keys
Entries(tab) ==
  UNION { UNION { { <<g, s, i>> : i \in 1..Len(tab[g][s]) } : s \in DOMAIN tab[g] }
          : g \in DOMAIN tab }

PointsOf(tab) == { tab[e[1]][e[2]][e[3]] : e \in Entries(tab) }

-----------------------------------------------------------------------------
(* Geometry *)

Abs(n) == IF n < 0 THEN -n ELSE n

Min2(a, b) == IF b < a THEN b ELSE a

\* the square of distance(theX1, theY1, theX2, theY2)
Dist2(p, q) == (q[1] - p[1]) * (q[1] - p[1]) + (q[2] - p[2]) * (q[2] - p[2])

\* dist < theDistance, for the distance between p and q
Closer(p, q, theDistance) == theDistance > 0 /\ Dist2(p, q) < theDistance * theDistance

\* mindistance(theX, theY, theCoords), squared; -1 for an empty collection
RECURSIVE mindistanceFrom(_, _, _, _)
mindistanceFrom(p, theCoords, i, best) ==
  IF i > Len(theCoords) THEN best
  ELSE LET dist == Dist2(p, theCoords[i])
       IN mindistanceFrom(p, theCoords, i + 1,
                          IF best < 0 THEN dist ELSE Min2(best, dist))

\* the distance to the farthest point of the collection instead
RECURSIVE maxdistanceFrom(_, _, _, _)
maxdistanceFrom(p, theCoords, i, best) ==
  IF i > Len(theCoords) THEN best
  ELSE LET dist == Dist2(p, theCoords[i])
       IN maxdistanceFrom(p, theCoords, i + 1,
                          IF best < 0 THEN dist ELSE IF dist > best THEN dist ELSE best)

maxdistance(p, theCoords) == maxdistanceFrom(p, theCoords, 1, -1)

mindistance(p, theCoords) == mindistanceFrom(p, theCoords, 1, -1)

-----------------------------------------------------------------------------
(* State after construction *)

\* empty() looking at the current table only
emptyCurrentOnly == itsCurrentCoordinates = EmptyMap

empty == itsPreviousCoordinates = EmptyMap /\ itsCurrentCoordinates = EmptyMap

\* inside() taking the box to be closed on its upper sides
insideClosed(theX, theY) ==
  IF ~itHasBBox THEN TRUE
  ELSE /\ theX >= itsBBox[1]
       /\ theX <= itsBBox[3]
       /\ theY >= itsBBox[2]
       /\ theY <= itsBBox[4]

inside(theX, theY) ==
  IF ~itHasBBox THEN TRUE
  ELSE /\ theX >= itsBBox[1]
       /\ theX < itsBBox[3]
       /\ theY >= itsBBox[2]
       /\ theY < itsBBox[4]

(***************************************************************************)
(* The callers.  A world is what one caller of the locator offers it: the  *)
(* parameter ids, the contour values, the points, the boxes and the        *)
(* distances it passes, the (contour value, point) pairs it adds, how many *)
(* points it adds to a frame and whether it renders more than one frame.   *)
(***************************************************************************)

\* one contour line followed over several frames
FramesWorld ==
  [ params |-> {1}, contours |-> {1, 2},
    pts    |-> { <<0, 0>>, <<1, 0>>, <<2, 1>> },
    adds   |-> {1, 2} \X { <<0, 0>>, <<1, 0>>, <<2, 1>> },
    boxes  |-> {},
    same   |-> {1}, value |-> {}, param |-> {},
    maxcands |-> MaxCands, frames |-> TRUE ]

\* two parameters with two contour values each, one frame
TiersWorld ==
  [ params |-> {1, 2}, contours |-> {1, 2},
    pts    |-> { <<0, 0>>, <<1, 0>> },
    adds   |-> {1, 2} \X { <<0, 0>>, <<1, 0>> },
    boxes  |-> {},
    same   |-> {2}, value |-> {1}, param |-> {0},
    maxcands |-> MaxCands + 1, frames |-> FALSE ]

\* a bounding box, valid or empty, and points on both sides of it
BoxWorld ==
  [ params |-> {1}, contours |-> {1},
    pts    |-> { <<0, 0>>, <<1, 1>>, <<3, 1>> },
    adds   |-> {1} \X { <<0, 0>>, <<1, 1>>, <<3, 1>> },
    boxes  |-> { <<0, 0, 3, 3>>, <<1, 0, 1, 2>>, <<0, 2, 2, 1>> },
    same   |-> {0, 1}, value |-> {}, param |-> {},
    maxcands |-> MaxCands, frames |-> TRUE ]

\* the first frame of a 100 x 100 image with the distances left as constructed
BorderWorld ==
  [ params |-> {1}, contours |-> {1},
    pts    |-> { <<50, 50>>, <<1, 1>> },
    adds   |-> {1} \X { <<50, 50>>, <<1, 1>> },
    boxes  |-> { <<0, 0, 100, 100>> },
    same   |-> {}, value |-> {}, param |-> {},
    maxcands |-> MaxCands, frames |-> FALSE ]

\* one parameter, two contour values, a point of the second value between
\* the two points of the first, one frame
CascadeWorld ==
  [ params |-> {1}, contours |-> {1, 2},
    pts    |-> { <<0, 0>>, <<10, 10>>, <<5, 5>> },
    adds   |-> { <<1, <<0, 0>>>>, <<1, <<10, 10>>>>, <<2, <<5, 5>>>> },
    boxes  |-> {},
    same   |-> {20}, value |-> {1}, param |-> {},
    maxcands |-> MaxCands + 1, frames |-> FALSE ]

\* a label of contour 5 followed from one frame to the next
RotationWorld ==
  [ params |-> {1}, contours |-> {5},
    pts    |-> { <<2, 2>>, <<0, 0>>, <<100, 100>> },
    adds   |-> {5} \X { <<2, 2>>, <<0, 0>>, <<100, 100>> },
    boxes  |-> {},
    same   |-> {1}, value |-> {}, param |-> {},
    maxcands |-> MaxCands, frames |-> TRUE ]

\* the same label with a contour 4 that passes through one of its
\* candidates, the distances left as constructed
CrossingWorld ==
  [ params |-> {1}, contours |-> {4, 5},
    pts    |-> { <<0, 0>>, <<100, 100>> },
    adds   |-> { <<4, <<0, 0>>>>, <<5, <<0, 0>>>>, <<5, <<100, 100>>>> },
    boxes  |-> {},
    same   |-> {}, value |-> {}, param |-> {},
    maxcands |-> MaxCands + 1, frames |-> TRUE ]

Worlds == { FramesWorld, TiersWorld, BoxWorld, BorderWorld, CascadeWorld, RotationWorld,
            CrossingWorld }

Constructed ==
  /\ itHasBBox = FALSE
  /\ itsBBox = <<0, 0, 0, 0>>
  /\ itsMinDistanceToSameValue = DefaultMinDistanceToSameValue
  /\ itsMinDistanceToDifferentValue = DefaultMinDistanceToDifferentValue
  /\ itsMinDistanceToDifferentParameter = DefaultMinDistanceToDifferentParameter
  /\ itsActiveParameter = badparameter
  /\ itsPreviousCoordinates = EmptyMap
  /\ itsCurrentCoordinates = EmptyMap
  /\ pc = "idle"
  /\ candidates = EmptyMap
  /\ choices = EmptyMap
  /\ cit = <<>>
  /\ taken = EmptyMap
  /\ chosen = FALSE
  /\ cleared = FALSE
  /\ stored = FALSE
  /\ call = <<"LabelLocator">>
  /\ outcome = "ok"

\* the names find() is asked for, and what the files may hold
ArrowNames == {"arrow1.path", "arrow2.path"}

ArrowPaths == {"M0,0 L0,1", "M0,0 L1,0"}

\* a file that an ifstream cannot open
NoFile == "no file"

\* class ArrowCache has no constructor of its own: itsCache starts empty
ArrowCacheConstructed ==
  /\ itsCache = EmptyMap
  /\ reads = [n \in ArrowNames |-> 0]
  /\ found = <<>>

Init ==
  /\ Constructed
  /\ world \in Worlds
  /\ ArrowCacheConstructed
  /\ files = [n \in ArrowNames |-> NoFile]

-----------------------------------------------------------------------------
(* Public operations other than chooseLabels *)

\* clear() leaving the previous table as it is
ClearCurrentOnly ==
  /\ pc = "idle"
  /\ itsActiveParameter' = badparameter
  /\ UNCHANGED itsPreviousCoordinates
  /\ itsCurrentCoordinates' = EmptyMap
  /\ call' = <<"clear">>
  /\ cleared' = TRUE
  /\ stored' = FALSE
  /\ taken' = EmptyMap
  /\ chosen' = FALSE
  /\ outcome' = "ok"
  /\ UNCHANGED <<config, locals, pc, world, arrows>>

\* clear() leaving the active parameter as it is
ClearTablesOnly ==
  /\ pc = "idle"
  /\ UNCHANGED itsActiveParameter
  /\ itsPreviousCoordinates' = EmptyMap
  /\ itsCurrentCoordinates' = EmptyMap
  /\ call' = <<"clear">>
  /\ taken' = EmptyMap
  /\ chosen' = FALSE
  /\ cleared' = TRUE
  /\ stored' = FALSE
  /\ outcome' = "ok"
  /\ UNCHANGED <<config, locals, pc, world, arrows>>

Clear ==
  /\ pc = "idle"
  /\ itsActiveParameter' = badparameter
  /\ itsPreviousCoordinates' = EmptyMap
  /\ itsCurrentCoordinates' = EmptyMap
  /\ call' = <<"clear">>
  /\ cleared' = TRUE
  /\ stored' = FALSE
  /\ taken' = EmptyMap
  /\ chosen' = FALSE
  /\ outcome' = "ok"
  /\ UNCHANGED <<config, locals, pc, world, arrows>>

\* the test of line 181 with < for <=
EmptyBoxStrict(theX1, theY1, theX2, theY2) == theX2 < theX1 \/ theY2 < theY1

\* line 181: the box holds no point
EmptyBox(theX1, theY1, theX2, theY2) == theX2 <= theX1 \/ theY2 <= theY1

BoundingBox(theX1, theY1, theX2, theY2) ==
  /\ pc = "idle"
  /\ call' = <<"boundingBox", theX1, theY1, theX2, theY2>>
  /\ cleared' = cleared
  /\ stored' = stored
  /\ taken' = EmptyMap
  /\ chosen' = chosen
  /\ IF ~empty
       THEN /\ outcome' = "InvalidConfiguration"
            /\ UNCHANGED <<itHasBBox, itsBBox>>
       ELSE IF EmptyBox(theX1, theY1, theX2, theY2)
              THEN /\ outcome' = "InvalidConfiguration"
                   /\ UNCHANGED <<itHasBBox, itsBBox>>
              ELSE /\ outcome' = "ok"
                   /\ itHasBBox' = TRUE
                   /\ itsBBox' = <<theX1, theY1, theX2, theY2>>
  /\ UNCHANGED <<itsMinDistanceToSameValue, itsMinDistanceToDifferentValue,
                 itsMinDistanceToDifferentParameter, itsActiveParameter,
                 itsPreviousCoordinates, itsCurrentCoordinates, locals, pc, world, arrows>>

MinDistanceToSameValue(theDistance) ==
  /\ pc = "idle"
  /\ call' = <<"minDistanceToSameValue", theDistance>>
  /\ cleared' = cleared
  /\ stored' = stored
  /\ taken' = EmptyMap
  /\ chosen' = chosen
  /\ IF ~empty
       THEN /\ outcome' = "InvalidConfiguration"
            /\ UNCHANGED itsMinDistanceToSameValue
       ELSE /\ outcome' = "ok"
            /\ itsMinDistanceToSameValue' = theDistance
  /\ UNCHANGED <<itHasBBox, itsBBox, itsMinDistanceToDifferentValue,
                 itsMinDistanceToDifferentParameter, itsActiveParameter,
                 itsPreviousCoordinates, itsCurrentCoordinates, locals, pc, world, arrows>>

MinDistanceToDifferentValue(theDistance) ==
  /\ pc = "idle"
  /\ call' = <<"minDistanceToDifferentValue", theDistance>>
  /\ cleared' = cleared
  /\ stored' = stored
  /\ taken' = EmptyMap
  /\ chosen' = chosen
  /\ IF ~empty
       THEN /\ outcome' = "InvalidConfiguration"
            /\ UNCHANGED itsMinDistanceToDifferentValue
       ELSE /\ outcome' = "ok"
            /\ itsMinDistanceToDifferentValue' = theDistance
  /\ UNCHANGED <<itHasBBox, itsBBox, itsMinDistanceToSameValue,
                 itsMinDistanceToDifferentParameter, itsActiveParameter,
                 itsPreviousCoordinates, itsCurrentCoordinates, locals, pc, world, arrows>>

MinDistanceToDifferentParameter(theDistance) ==
  /\ pc = "idle"
  /\ call' = <<"minDistanceToDifferentParameter", theDistance>>
  /\ cleared' = cleared
  /\ stored' = stored
  /\ taken' = EmptyMap
  /\ chosen' = chosen
  /\ IF ~empty
       THEN /\ outcome' = "InvalidConfiguration"
            /\ UNCHANGED itsMinDistanceToDifferentParameter
       ELSE /\ outcome' = "ok"
            /\ itsMinDistanceToDifferentParameter' = theDistance
  /\ UNCHANGED <<itHasBBox, itsBBox, itsMinDistanceToSameValue,
                 itsMinDistanceToDifferentValue, itsActiveParameter,
                 itsPreviousCoordinates, itsCurrentCoordinates, locals, pc, world, arrows>>

\* parameter() without the test of line 254
ParameterUnchecked(theParameter) ==
  /\ pc = "idle"
  /\ call' = <<"parameter", theParameter>>
  /\ taken' = EmptyMap
  /\ chosen' = chosen
  /\ cleared' = FALSE
  /\ stored' = stored
  /\ outcome' = "ok"
  /\ itsActiveParameter' = theParameter
  /\ UNCHANGED <<config, itsPreviousCoordinates, itsCurrentCoordinates,
                 locals, pc, world, arrows>>

Parameter(theParameter) ==
  /\ pc = "idle"
  /\ call' = <<"parameter", theParameter>>
  /\ cleared' = FALSE
  /\ stored' = stored
  /\ taken' = EmptyMap
  /\ chosen' = chosen
  /\ IF theParameter = badparameter
       THEN /\ outcome' = "InvalidState"
            /\ UNCHANGED itsActiveParameter
       ELSE /\ outcome' = "ok"
            /\ itsActiveParameter' = theParameter
  /\ UNCHANGED <<config, itsPreviousCoordinates, itsCurrentCoordinates,
                 locals, pc, world, arrows>>

\* nextTime() clearing both tables
NextTimeDropsBoth ==
  /\ pc = "idle"
  /\ world.frames
  /\ call' = <<"nextTime">>
  /\ cleared' = cleared
  /\ stored' = stored
  /\ taken' = EmptyMap
  /\ chosen' = FALSE
  /\ outcome' = "ok"
  /\ itsPreviousCoordinates' = EmptyMap
  /\ itsCurrentCoordinates' = EmptyMap
  /\ UNCHANGED <<config, itsActiveParameter, locals, pc, world, arrows>>

\* nextTime() without the clear() of line 273
NextTimeKeepsCurrent ==
  /\ pc = "idle"
  /\ world.frames
  /\ call' = <<"nextTime">>
  /\ cleared' = cleared
  /\ stored' = stored
  /\ taken' = EmptyMap
  /\ chosen' = FALSE
  /\ outcome' = "ok"
  /\ itsPreviousCoordinates' = itsCurrentCoordinates
  /\ itsCurrentCoordinates' = itsPreviousCoordinates
  /\ UNCHANGED <<config, itsActiveParameter, locals, pc, world, arrows>>

\* nextTime() resetting the active parameter, as clear() does
NextTimeResettingParameter ==
  /\ pc = "idle"
  /\ world.frames
  /\ call' = <<"nextTime">>
  /\ cleared' = cleared
  /\ stored' = stored
  /\ taken' = EmptyMap
  /\ chosen' = FALSE
  /\ outcome' = "ok"
  /\ itsPreviousCoordinates' = itsCurrentCoordinates
  /\ itsCurrentCoordinates' = EmptyMap
  /\ itsActiveParameter' = badparameter
  /\ UNCHANGED <<config, locals, pc, world, arrows>>

NextTime ==
  /\ pc = "idle"
  /\ world.frames
  /\ call' = <<"nextTime">>
  /\ cleared' = cleared
  /\ stored' = stored
  /\ taken' = EmptyMap
  /\ chosen' = FALSE
  /\ outcome' = "ok"
  /\ itsPreviousCoordinates' = itsCurrentCoordinates
  /\ itsCurrentCoordinates' = EmptyMap
  /\ UNCHANGED <<config, itsActiveParameter, locals, pc, world, arrows>>

\* push_front for the push_back of line 330
PushFront(c, xy) == <<xy>> \o c

\* line 330: c.push_back(xy)
PushBack(c, xy) == Append(c, xy)

\* add with the lookups of lines 326-327 made before the tests of 315 and 320
AddLookingUpFirst(theContour, theX, theY) ==
  /\ pc = "idle"
  /\ Count(itsCurrentCoordinates) < world.maxcands
  /\ call' = <<"add", theContour, theX, theY>>
  /\ cleared' = cleared
  /\ taken' = EmptyMap
  /\ chosen' = FALSE
  /\ LET cc == AtOrDefault(itsCurrentCoordinates, itsActiveParameter, EmptyMap)
         c  == AtOrDefault(cc, theContour, <<>>)
     IN IF ~inside(theX, theY)
          THEN /\ outcome' = "ok"
               /\ stored' = stored
               /\ itsCurrentCoordinates' =
                    Put(itsCurrentCoordinates, itsActiveParameter, Put(cc, theContour, c))
          ELSE IF itsActiveParameter = badparameter
                 THEN /\ outcome' = "InvalidState"
                      /\ UNCHANGED <<itsCurrentCoordinates, stored>>
                 ELSE /\ outcome' = "ok"
                      /\ stored' = TRUE
                      /\ itsCurrentCoordinates' =
                           Put(itsCurrentCoordinates, itsActiveParameter,
                               Put(cc, theContour, PushBack(c, <<theX, theY>>)))
  /\ UNCHANGED <<config, itsActiveParameter, itsPreviousCoordinates,
                 locals, pc, world, arrows>>

Add(theContour, theX, theY) ==
  /\ pc = "idle"
  /\ Count(itsCurrentCoordinates) < world.maxcands
  /\ call' = <<"add", theContour, theX, theY>>
  /\ cleared' = cleared
  /\ taken' = EmptyMap
  /\ chosen' = FALSE
  /\ IF ~inside(theX, theY)
       THEN /\ outcome' = "ok"
            /\ UNCHANGED <<itsCurrentCoordinates, stored>>
       ELSE IF itsActiveParameter = badparameter
              THEN /\ outcome' = "InvalidState"
                   /\ UNCHANGED <<itsCurrentCoordinates, stored>>
              ELSE LET cc == AtOrDefault(itsCurrentCoordinates, itsActiveParameter, EmptyMap)
                       c  == AtOrDefault(cc, theContour, <<>>)
                   IN /\ outcome' = "ok"
                      /\ stored' = TRUE
                      /\ itsCurrentCoordinates' =
                           Put(itsCurrentCoordinates, itsActiveParameter,
                               Put(cc, theContour, PushBack(c, <<theX, theY>>)))
  /\ UNCHANGED <<config, itsActiveParameter, itsPreviousCoordinates,
                 locals, pc, world, arrows>>

-----------------------------------------------------------------------------
(* The selectors.  They return an index into theCandidates, 0 for end(). *)

\* the loop of lines 442-452 keeping the candidate farthest from the previous ones
RECURSIVE FarthestFromPreviousFrom(_, _, _, _, _)
FarthestFromPreviousFrom(theCandidates, thePreviousChoises, it, bestdist, best) ==
  IF it > Len(theCandidates) THEN best
  ELSE LET mindist == mindistance(theCandidates[it], thePreviousChoises)
       IN IF bestdist < 0 \/ mindist > bestdist
            THEN FarthestFromPreviousFrom(theCandidates, thePreviousChoises, it + 1, mindist, it)
            ELSE FarthestFromPreviousFrom(theCandidates, thePreviousChoises, it + 1, bestdist, best)

RECURSIVE ClosestToPreviousFrom(_, _, _, _, _)
ClosestToPreviousFrom(theCandidates, thePreviousChoises, it, bestdist, best) ==
  IF it > Len(theCandidates) THEN best
  ELSE LET mindist == mindistance(theCandidates[it], thePreviousChoises)
       IN IF bestdist < 0 \/ mindist < bestdist
            THEN ClosestToPreviousFrom(theCandidates, thePreviousChoises, it + 1, mindist, it)
            ELSE ClosestToPreviousFrom(theCandidates, thePreviousChoises, it + 1, bestdist, best)

\* the selector with bestdist starting at 0 instead of the sentinel -1
chooseClosestToPreviousFromZero(theCandidates, thePreviousChoises) ==
  ClosestToPreviousFrom(theCandidates, thePreviousChoises, 1, 0, 0)

chooseClosestToPrevious(theCandidates, thePreviousChoises) ==
  ClosestToPreviousFrom(theCandidates, thePreviousChoises, 1, -1, 0)

\* min(xdist, ydist) of one candidate
BorderDist(p) ==
  LET xdist == Min2(Abs(p[1] - itsBBox[1]), Abs(p[1] - itsBBox[3]))
      ydist == Min2(Abs(p[2] - itsBBox[2]), Abs(p[2] - itsBBox[4]))
  IN Min2(xdist, ydist)

RECURSIVE ClosestToBorderFrom(_, _, _, _)
ClosestToBorderFrom(theCandidates, it, bestdist, best) ==
  IF it > Len(theCandidates) THEN best
  ELSE LET dist == BorderDist(theCandidates[it])
       IN IF bestdist < 0 \/ dist < bestdist
            THEN ClosestToBorderFrom(theCandidates, it + 1, dist, it)
            ELSE ClosestToBorderFrom(theCandidates, it + 1, bestdist, best)

\* the selector without the loop of lines 480-493
chooseFirst(theCandidates) == IF Len(theCandidates) = 0 THEN 0 ELSE 1

\* the selector returning the last candidate when there is no box
chooseLastWithoutBox(theCandidates) ==
  IF Len(theCandidates) = 0 THEN 0
  ELSE IF ~itHasBBox THEN Len(theCandidates)
  ELSE ClosestToBorderFrom(theCandidates, 1, -1, 0)

chooseClosestToBorder(theCandidates) ==
  IF Len(theCandidates) = 0 THEN 0
  ELSE IF ~itHasBBox THEN 1
  ELSE ClosestToBorderFrom(theCandidates, 1, -1, 0)

\* chooseOne() that never looks at the previous timestep
chooseOneIgnoringPrevious(theCandidates, theParam, theContour) ==
  chooseClosestToBorder(theCandidates)

chooseOne(theCandidates, theParam, theContour) ==
  IF theParam \notin DOMAIN itsPreviousCoordinates
    THEN chooseClosestToBorder(theCandidates)
  ELSE IF theContour \notin DOMAIN itsPreviousCoordinates[theParam]
    THEN chooseClosestToBorder(theCandidates)
  ELSE chooseClosestToPrevious(theCandidates, itsPreviousCoordinates[theParam][theContour])

-----------------------------------------------------------------------------
(* removeCandidates and removeEmpties *)

\* the distance under which a candidate of (param, contour) is erased
\* because of a point chosen for (theParam, theContour)
Threshold(param, contour, theParam, theContour) ==
  IF param # theParam THEN itsMinDistanceToDifferentParameter
  ELSE IF contour # theContour THEN itsMinDistanceToDifferentValue
  ELSE itsMinDistanceToSameValue

\* the elements of a list whose index is in keep, in their order
RECURSIVE FilterFrom(_, _, _)
FilterFrom(coords, i, keep) ==
  IF i > Len(coords) THEN <<>>
  ELSE (IF i \in keep THEN <<coords[i]>> ELSE <<>>) \o FilterFrom(coords, i + 1, keep)

(***************************************************************************)
(* removeCandidates(theCandidates, thePoint, theParam, theContour).        *)
(* chooseLabels passes *best for thePoint, and the parameter is a          *)
(* reference (const XY &): it refers to the element of                     *)
(* theCandidates[theParam][theContour] at index best.  The scan visits the *)
(* parameters, the contours and the elements in order.  When it reaches    *)
(* that element the distance is 0, and with 0 < itsMinDistanceToSameValue  *)
(* the element is erased: from then on thePoint is a dangling reference    *)
(* and every later read of it is undefined.  The value such a read yields  *)
(* is stale: the erased point when the freed storage is left as it was,    *)
(* another value when it is not.                                           *)
(***************************************************************************)
ErasesChosen == Closer(<<0, 0>>, <<0, 0>>, itsMinDistanceToSameValue)

\* whether the scan reads thePoint for element i of (param, contour) after
\* the chosen element was erased
AfterChosen(param, contour, i, best, theParam, theContour) ==
  /\ ErasesChosen
  /\ \/ param > theParam
     \/ param = theParam /\ contour > theContour
     \/ param = theParam /\ contour = theContour /\ i > best

removeCandidates(theCandidates, best, theParam, theContour, stale) ==
  LET thePoint == theCandidates[theParam][theContour][best]
      Read(param, contour, i) ==
        IF AfterChosen(param, contour, i, best, theParam, theContour)
          THEN stale ELSE thePoint
      Erase(param, contour, i) ==
        Closer(Read(param, contour, i), theCandidates[param][contour][i],
               Threshold(param, contour, theParam, theContour))
  IN [param \in DOMAIN theCandidates |->
       [contour \in DOMAIN theCandidates[param] |->
          FilterFrom(theCandidates[param][contour], 1,
                     { i \in 1..Len(theCandidates[param][contour]) :
                         ~Erase(param, contour, i) })]]

removeEmpties(theCandidates) ==
  LET Purged(param) ==
        Drop(theCandidates[param],
             { contour \in DOMAIN theCandidates[param] :
                 theCandidates[param][contour] = <<>> })
  IN Drop([param \in DOMAIN theCandidates |-> Purged(param)],
          { param \in DOMAIN theCandidates : Purged(param) = EmptyMap })

-----------------------------------------------------------------------------
(* chooseLabels, one step per evaluation of a loop *)

\* what a read through the dangling reference may yield
StaleValues(thePoint) == {thePoint} \cup world.pts

\* the last parameter of the map instead of the first
LastParam(theCandidates) ==
  CHOOSE x \in DOMAIN theCandidates : \A y \in DOMAIN theCandidates : y <= x

\* line 350: candidates.begin()->first
FirstParam(theCandidates) == MinKey(DOMAIN theCandidates)

\* ++cit on the std::map that holds key
NextIt(contours, key) ==
  LET later == { k \in DOMAIN contours : k > key }
  IN IF later = {} THEN <<>> ELSE <<MinKey(later)>>

\* the iterator of the last contour value instead of begin()
LastIt(contours) ==
  IF DOMAIN contours = {} THEN <<>>
  ELSE <<CHOOSE k \in DOMAIN contours : \A j \in DOMAIN contours : j <= k>>

BeginIt(contours) ==
  IF DOMAIN contours = {} THEN <<>> ELSE <<MinKey(DOMAIN contours)>>

\* the call, taking the candidates from the previous table
ChooseLabelsFromPrevious ==
  /\ pc = "idle"
  /\ call' = <<"chooseLabels">>
  /\ cleared' = cleared
  /\ stored' = stored
  /\ taken' = itsCurrentCoordinates
  /\ chosen' = chosen
  /\ outcome' = "running"
  /\ candidates' = itsPreviousCoordinates
  /\ choices' = EmptyMap
  /\ itsCurrentCoordinates' = EmptyMap
  /\ cit' = <<>>
  /\ pc' = "while"
  /\ UNCHANGED <<config, itsActiveParameter, itsPreviousCoordinates, world, arrows>>

\* lines 344-346: the call, up to the first test of the while loop
ChooseLabels ==
  /\ pc = "idle"
  /\ call' = <<"chooseLabels">>
  /\ cleared' = cleared
  /\ stored' = stored
  /\ taken' = itsCurrentCoordinates
  /\ chosen' = chosen
  /\ outcome' = "running"
  /\ candidates' = itsCurrentCoordinates
  /\ choices' = EmptyMap
  /\ itsCurrentCoordinates' = EmptyMap
  /\ cit' = <<>>
  /\ pc' = "while"
  /\ UNCHANGED <<config, itsActiveParameter, itsPreviousCoordinates, world, arrows>>

\* the while test, returning without the swap of line 390
ChooseLabelsWhileWithoutSwap ==
  /\ pc = "while"
  /\ IF candidates # EmptyMap
       THEN /\ cit' = BeginIt(candidates[FirstParam(candidates)])
            /\ pc' = "for"
            /\ UNCHANGED <<itsCurrentCoordinates, candidates, choices, outcome>>
       ELSE /\ UNCHANGED itsCurrentCoordinates
            /\ candidates' = EmptyMap
            /\ choices' = EmptyMap
            /\ cit' = <<>>
            /\ pc' = "idle"
            /\ outcome' = "ok"
  /\ chosen' = (chosen \/ candidates = EmptyMap)
  /\ UNCHANGED <<config, itsActiveParameter, itsPreviousCoordinates, taken, cleared, stored, call, world, arrows>>

\* line 348: the test of the while loop; lines 390-392 when it fails
ChooseLabelsWhile ==
  /\ pc = "while"
  /\ IF candidates # EmptyMap
       THEN /\ cit' = BeginIt(candidates[FirstParam(candidates)])
            /\ pc' = "for"
            /\ UNCHANGED <<itsCurrentCoordinates, candidates, choices, outcome>>
       ELSE /\ itsCurrentCoordinates' = choices
            /\ candidates' = EmptyMap
            /\ choices' = EmptyMap
            /\ cit' = <<>>
            /\ pc' = "idle"
            /\ outcome' = "ok"
  /\ chosen' = (chosen \/ candidates = EmptyMap)
  /\ UNCHANGED <<config, itsActiveParameter, itsPreviousCoordinates, taken, cleared, stored, call, world, arrows>>

\* lines 353-386: one iteration of the for loop, or its end and removeEmpties
ChooseLabelsFor ==
  /\ pc = "for"
  /\ LET param    == FirstParam(candidates)
         contours == candidates[param]
     IN IF cit = <<>>
          THEN /\ candidates' = removeEmpties(candidates)
               /\ pc' = "while"
               /\ UNCHANGED <<choices, cit, outcome, itsCurrentCoordinates>>
          ELSE LET value == cit[1]
                   best  == chooseOne(contours[value], param, value)
               IN IF contours[value] = <<>>
                    THEN /\ cit' = NextIt(contours, value)
                         /\ UNCHANGED <<candidates, choices, pc, outcome,
                                        itsCurrentCoordinates>>
                    ELSE IF best = 0
                      THEN /\ outcome' = "InternalError"
                           /\ pc' = "idle"
                           /\ candidates' = EmptyMap
                           /\ choices' = EmptyMap
                           /\ cit' = <<>>
                           /\ UNCHANGED itsCurrentCoordinates
                      ELSE /\ Count(choices) <= world.maxcands
                           /\ choices' =
                                LET cc == AtOrDefault(choices, param, EmptyMap)
                                    coords == AtOrDefault(cc, value, <<>>)
                                IN Put(choices, param,
                                       Put(cc, value, Append(coords, contours[value][best])))
                           /\ \E stale \in StaleValues(contours[value][best]) :
                                candidates' = removeCandidates(candidates, best, param, value, stale)
                           /\ cit' = NextIt(contours, value)
                           /\ UNCHANGED <<pc, outcome, itsCurrentCoordinates>>
  /\ UNCHANGED <<config, itsActiveParameter, itsPreviousCoordinates, taken, chosen, cleared, stored, call, world, arrows>>

-----------------------------------------------------------------------------
(* The callers *)

Next ==
  \/ Clear
  \/ \E b \in world.boxes : BoundingBox(b[1], b[2], b[3], b[4])
  \/ \E d \in world.same : MinDistanceToSameValue(d)
  \/ \E d \in world.value : MinDistanceToDifferentValue(d)
  \/ \E d \in world.param : MinDistanceToDifferentParameter(d)
  \/ \E g \in world.params \cup {badparameter} : Parameter(g)
  \/ NextTime
  \/ \E a \in world.adds : Add(a[1], a[2][1], a[2][2])
  \/ ChooseLabels
  \/ ChooseLabelsWhile
  \/ ChooseLabelsFor

Spec == Init /\ [][Next]_vars

-----------------------------------------------------------------------------
(***************************************************************************)
(* do_draw_contours (src/main/qdcontour2.cpp), as far as it drives         *)
(* globals.labellocator: clear() once, then for every frame boundingBox,   *)
(* for every parameter save_contour_labels (parameter, add ...), then      *)
(* draw_contour_labels (chooseLabels) and nextTime.  The position of the   *)
(* loop is read from the call made last; an exception leaves the function, *)
(* so that nothing follows a call that failed.  symbollocator and          *)
(* imagelocator are objects of the same class driven in the same way.      *)
(***************************************************************************)

\* a 5 x 5 image with a margin of 1, two parameters with one contour value
DrawWorld ==
  [ params |-> {1, 2}, contours |-> {1},
    pts    |-> { <<0, 0>>, <<1, 1>>, <<2, 2>> },
    adds   |-> {1} \X { <<0, 0>>, <<1, 1>>, <<2, 2>> },
    boxes  |-> { <<1, 1, 4, 4>> },
    same   |-> {}, value |-> {}, param |-> {},
    maxcands |-> MaxCands, frames |-> TRUE ]

DrawInit ==
  /\ Constructed
  /\ world = DrawWorld
  /\ ArrowCacheConstructed
  /\ files = [n \in ArrowNames |-> NoFile]

\* the loop stands after a call of one of these names, which returned
DrawAt(names) == pc = "idle" /\ outcome = "ok" /\ call[1] \in names

\* lines 4993-4996
DrawClear == call = <<"LabelLocator">> /\ Clear

\* lines 5241-5244, in every frame
DrawBoundingBox ==
  /\ DrawAt({"clear", "nextTime"})
  /\ \E b \in world.boxes : BoundingBox(b[1], b[2], b[3], b[4])

\* save_contour_labels, line 4369
DrawSaveParameter ==
  /\ DrawAt({"boundingBox", "parameter", "add"})
  /\ \E g \in world.params : Parameter(g)

\* save_contour_labels, line 4393
DrawSaveAdd ==
  /\ DrawAt({"parameter", "add"})
  /\ \E a \in world.adds : Add(a[1], a[2][1], a[2][2])

\* draw_contour_labels, line 4408
DrawContourLabels ==
  /\ DrawAt({"boundingBox", "parameter", "add"})
  /\ ChooseLabels

\* lines 5427-5430
DrawNextTime ==
  /\ DrawAt({"chooseLabels"})
  /\ NextTime

DrawNext ==
  \/ DrawClear
  \/ DrawBoundingBox
  \/ DrawSaveParameter
  \/ DrawSaveAdd
  \/ DrawContourLabels
  \/ ChooseLabelsWhile
  \/ ChooseLabelsFor
  \/ DrawNextTime

DrawSpec == DrawInit /\ [][DrawNext]_vars

-----------------------------------------------------------------------------
(***************************************************************************)
(* class ArrowCache (src/source/ArrowCache.cpp): itsCache maps the name of *)
(* an arrow file to its contents.  The files belong to the environment and *)
(* can be written, replaced or removed between two calls.                  *)
(***************************************************************************)

ArrowInit ==
  /\ Constructed
  /\ world = DrawWorld
  /\ ArrowCacheConstructed
  /\ files \in [ArrowNames -> ArrowPaths \cup {NoFile}]

\* find() without the lookup of lines 47-49: the file is read at every call
ArrowFindUncached(theName) ==
  /\ pc = "idle"
  /\ IF files[theName] = NoFile
       THEN /\ found' = <<theName, "CouldNotOpen", "">>
            /\ UNCHANGED <<itsCache, reads>>
       ELSE /\ reads[theName] < MaxReads
            /\ reads' = [reads EXCEPT ![theName] = @ + 1]
            /\ itsCache' = Put(itsCache, theName, files[theName])
            /\ found' = <<theName, "read", files[theName]>>
  /\ UNCHANGED <<files, locator, world>>

\* lines 45-63.  The insert of line 57 follows a failed lookup of the same
\* key, so that ret.second is true and line 60 is not reached.
ArrowFind(theName) ==
  /\ pc = "idle"
  /\ IF theName \in DOMAIN itsCache
       THEN /\ found' = <<theName, "cached", itsCache[theName]>>
            /\ UNCHANGED <<itsCache, reads>>
       ELSE IF files[theName] = NoFile
         THEN /\ found' = <<theName, "CouldNotOpen", "">>
              /\ UNCHANGED <<itsCache, reads>>
         ELSE /\ reads[theName] < MaxReads
              /\ reads' = [reads EXCEPT ![theName] = @ + 1]
              /\ itsCache' = Put(itsCache, theName, files[theName])
              /\ found' = <<theName, "read", files[theName]>>
  /\ UNCHANGED <<files, locator, world>>

\* lines 34-37
ArrowClear ==
  /\ pc = "idle"
  /\ itsCache' = EmptyMap
  /\ reads' = [n \in ArrowNames |-> 0]
  /\ found' = <<>>
  /\ UNCHANGED <<files, locator, world>>

\* the environment writes, replaces or removes an arrow file
WriteFile(theName, theContents) ==
  /\ files[theName] # theContents
  /\ files' = [files EXCEPT ![theName] = theContents]
  /\ UNCHANGED <<itsCache, reads, found, locator, world>>

ArrowNext ==
  \/ \E n \in ArrowNames : ArrowFind(n)
  \/ ArrowClear
  \/ \E n \in ArrowNames, c \in ArrowPaths \cup {NoFile} : WriteFile(n, c)

ArrowSpec == ArrowInit /\ [][ArrowNext]_vars

-----------------------------------------------------------------------------
(* Vocabulary of the properties *)

\* the chooseLabels call made last has returned its table
Returned == pc = "idle" /\ call = <<"chooseLabels">> /\ outcome = "ok"

\* a step that is a public call (the call made is call')
Calls(name) == pc = "idle" /\ call'[1] = name

Setters == { "boundingBox", "minDistanceToSameValue",
             "minDistanceToDifferentValue", "minDistanceToDifferentParameter" }

BothTablesEmpty == Count(itsPreviousCoordinates) = 0 /\ Count(itsCurrentCoordinates) = 0
                   /\ DOMAIN itsPreviousCoordinates = {} /\ DOMAIN itsCurrentCoordinates = {}

\* the least distance two points of (g1, s1) and (g2, s2) may have
MinSeparation(g1, s1, g2, s2) ==
  IF g1 = g2 /\ s1 = s2 THEN itsMinDistanceToSameValue
  ELSE IF g1 = g2 THEN itsMinDistanceToDifferentValue
  ELSE itsMinDistanceToDifferentParameter

\* distance(p, q) >= d
AtLeastApart(p, q, d) == d <= 0 \/ Dist2(p, q) >= d * d

PairwiseCompliant(tab) ==
  \A e1 \in Entries(tab), e2 \in Entries(tab) :
    e1 # e2 => AtLeastApart(tab[e1[1]][e1[2]][e1[3]], tab[e2[1]][e2[2]][e2[3]],
                            MinSeparation(e1[1], e1[2], e2[1], e2[2]))

InBox(p) ==
  /\ itsBBox[1] <= p[1] /\ p[1] < itsBBox[3]
  /\ itsBBox[2] <= p[2] /\ p[2] < itsBBox[4]

-----------------------------------------------------------------------------
(* C1: the table chooseLabels returns is pairwise-compliant: two points of  *)
(* the same (Group, Subkey) are at least minSame apart, two of the same     *)
(* Group and different Subkeys at least minDifferentSubkey, two of          *)
(* different Groups at least minDifferentGroup.                             *)
(* The code does not guarantee it: after the chosen element is erased,      *)
(* removeCandidates compares the later candidates with a dangling           *)
(* reference, and a candidate too close to the chosen point can survive.    *)
C1_PairwiseCompliant == Returned => PairwiseCompliant(itsCurrentCoordinates)

(* C2: chooseLabels terminates because every pick removes at least the      *)
(* chosen candidate from the working candidates, so that their number       *)
(* strictly decreases, whatever the three distances are.                    *)
(* With minDistanceToSameValue <= 0 the chosen candidate is at distance 0,  *)
(* which is not below the threshold: it stays, and is chosen again.         *)
C2_EachPickShrinks ==
  [][ (pc = "for" /\ choices' # choices) => Count(candidates') < Count(candidates) ]_vars

(* C3: whenever a bounding box is configured, every point of the current    *)
(* table (the candidates, or the table chooseLabels returned), of the       *)
(* previous table and of the tables chooseLabels works on satisfies         *)
(* x1 <= x < x2 and y1 <= y < y2.                                           *)
C3_Containment ==
  itHasBBox =>
    \A p \in PointsOf(itsCurrentCoordinates) \cup PointsOf(itsPreviousCoordinates)
             \cup PointsOf(candidates) \cup PointsOf(choices) : InBox(p)

C3_Witness ==
  /\ Returned
  /\ itHasBBox
  /\ Count(itsCurrentCoordinates) > 0
  /\ Count(itsPreviousCoordinates) > 0

(* C4: boundingBox and the three minDistance setters fail, changing neither *)
(* the box nor a threshold, whenever one of the two tables is non-empty;    *)
(* the configuration changes only in a state where both are empty.          *)
C4_SettersNeedEmpty ==
  [][ /\ (pc = "idle" /\ call'[1] \in Setters /\ ~BothTablesEmpty)
         => (outcome' = "InvalidConfiguration" /\ config' = config)
      /\ (config' # config) => BothTablesEmpty ]_vars

C4_Witness ==
  /\ call[1] = "minDistanceToSameValue"
  /\ outcome = "InvalidConfiguration"
  /\ Count(itsCurrentCoordinates) = 0
  /\ Count(itsPreviousCoordinates) > 0

(* C5: boundingBox(x1, y1, x2, y2) fails when x2 <= x1 or y2 <= y1; a call  *)
(* that fails leaves the box, and whether there is one, as they were; with  *)
(* x2 > x1, y2 > y1 and both tables empty it succeeds and stores exactly    *)
(* (x1, y1, x2, y2).                                                        *)
C5_BoundingBox ==
  [][ Calls("boundingBox") =>
        LET x1 == call'[2]
            y1 == call'[3]
            x2 == call'[4]
            y2 == call'[5]
        IN /\ (x2 <= x1 \/ y2 <= y1) => outcome' = "InvalidConfiguration"
           /\ outcome' # "ok" => (itHasBBox' = itHasBBox /\ itsBBox' = itsBBox)
           /\ (x2 > x1 /\ y2 > y1 /\ BothTablesEmpty)
                => (outcome' = "ok" /\ itHasBBox' /\ itsBBox' = <<x1, y1, x2, y2>>) ]_vars

\* an empty box was refused after a box had been configured, which is kept
C5_Witness ==
  /\ call[1] = "boundingBox"
  /\ (call[4] <= call[2] \/ call[5] <= call[3])
  /\ outcome = "InvalidConfiguration"
  /\ BothTablesEmpty
  /\ itHasBBox
  /\ itsBBox = <<0, 0, 3, 3>>

\* the (parameter, contour) pairs a table has a list for
Lists(tab) == { <<g, s>> \in (DOMAIN tab) \X (UNION { DOMAIN tab[g] : g \in DOMAIN tab }) :
                  s \in DOMAIN tab[g] }

ListAt(tab, g, s) == IF <<g, s>> \in Lists(tab) THEN tab[g][s] ELSE <<>>

(* C6 as claimed: after clear() both tables are empty, and every add() made *)
(* after that clear() and before any parameter() call fails with            *)
(* InvalidState, whatever the contour value and the point.                  *)
C6_AddAfterClearFails ==
  [][ /\ Calls("clear") => BothTablesEmpty'
      /\ (Calls("add") /\ cleared) => outcome' = "InvalidState" ]_vars

(* C6 amended: after clear() both tables are empty, and an add(s, x, y)     *)
(* made after that clear() and before any parameter() call stores nothing:  *)
(* it fails with InvalidState, except that with a bounding box configured   *)
(* and (x, y) outside it the call returns normally (the box is tested       *)
(* first, and clear() keeps the box).                                       *)
C6_AddAfterClear ==
  [][ /\ Calls("clear") => BothTablesEmpty'
      /\ (Calls("add") /\ cleared) =>
           /\ outcome' = IF itHasBBox /\ ~InBox(<<call'[3], call'[4]>>)
                           THEN "ok" ELSE "InvalidState"
           /\ UNCHANGED <<itsCurrentCoordinates, itsPreviousCoordinates>> ]_vars

C6_Witness ==
  /\ call[1] = "add"
  /\ cleared
  /\ itHasBBox
  /\ ~InBox(<<call[3], call[4]>>)
  /\ outcome = "ok"
  /\ BothTablesEmpty

(* C7: with ActiveGroup g set, add(s, x, y) of a point inside the box (or   *)
(* with no box) appends (x, y) at the end of CandidateTable[g][s], keeps    *)
(* every entry of that list in place, duplicates included, and changes no   *)
(* other list; with a box configured and the point outside it, add changes  *)
(* nothing.                                                                 *)
C7_AddAppends ==
  [][ (Calls("add") /\ itsActiveParameter # badparameter) =>
        LET g == itsActiveParameter
            s == call'[2]
            xy == <<call'[3], call'[4]>>
        IN IF itHasBBox /\ ~InBox(xy)
             THEN UNCHANGED <<itsCurrentCoordinates, itsPreviousCoordinates,
                              config, itsActiveParameter>>
             ELSE /\ Lists(itsCurrentCoordinates') = Lists(itsCurrentCoordinates) \cup {<<g, s>>}
                  /\ itsCurrentCoordinates'[g][s] = ListAt(itsCurrentCoordinates, g, s) \o <<xy>>
                  /\ \A k \in Lists(itsCurrentCoordinates) \ {<<g, s>>} :
                       itsCurrentCoordinates'[k[1]][k[2]] = itsCurrentCoordinates[k[1]][k[2]]
                  /\ UNCHANGED <<itsPreviousCoordinates, config, itsActiveParameter>> ]_vars

\* a point was added a second time, after another one, and all three are kept in order
C7_Witness ==
  /\ call[1] = "add"
  /\ outcome = "ok"
  /\ itsActiveParameter # badparameter
  /\ LET c == ListAt(itsCurrentCoordinates, itsActiveParameter, call[2])
     IN /\ Len(c) = 3
        /\ c[1] = c[3]
        /\ c[1] # c[2]
        /\ c[3] = <<call[3], call[4]>>

(* C8: parameter(0) fails and leaves ActiveGroup as it was; parameter(g)    *)
(* with g # 0 sets ActiveGroup to g; neither changes a table or the         *)
(* configuration.                                                           *)
C8_Parameter ==
  [][ Calls("parameter") =>
        /\ call'[2] = 0 => (outcome' = "InvalidState" /\ itsActiveParameter' = itsActiveParameter)
        /\ call'[2] # 0 => (outcome' = "ok" /\ itsActiveParameter' = call'[2])
        /\ UNCHANGED <<itsCurrentCoordinates, itsPreviousCoordinates, config>> ]_vars

C8_Witness ==
  /\ call = <<"parameter", 0>>
  /\ outcome = "InvalidState"
  /\ itsActiveParameter # badparameter
  /\ Count(itsCurrentCoordinates) > 0

-----------------------------------------------------------------------------
(* The calls of chooseOne: chooseLabels calls it at line 367 for the list   *)
(* under cit, when that list is not empty.                                  *)

AtPick ==
  /\ pc = "for"
  /\ cit # <<>>
  /\ candidates[MinKey(DOMAIN candidates)][cit[1]] # <<>>

PickParam == MinKey(DOMAIN candidates)

PickList == candidates[PickParam][cit[1]]

Picked == chooseOne(PickList, PickParam, cit[1])

HasPrevious(g, s) == g \in DOMAIN itsPreviousCoordinates /\ s \in DOMAIN itsPreviousCoordinates[g]

Least(S) == CHOOSE m \in S : \A x \in S : m <= x

\* i is the first index at which the sequence score is least
IsEarliestLeast(i, score) ==
  /\ i \in 1..Len(score)
  /\ \A j \in 1..Len(score) :
       /\ score[i] <= score[j]
       /\ j < i => score[j] > score[i]

(* C9: when PreviousChoice[g][s] exists, chooseOne(g, s, list) returns the  *)
(* candidate whose least distance to a point of PreviousChoice[g][s] is     *)
(* smallest, and of several such candidates the one added first.            *)
C9_ClosestToPrevious ==
  (AtPick /\ HasPrevious(PickParam, cit[1])) =>
    LET prev == itsPreviousCoordinates[PickParam][cit[1]]
        ToPrevious(c) == Least({ Dist2(c, prev[k]) : k \in 1..Len(prev) })
    IN IsEarliestLeast(Picked, [i \in 1..Len(PickList) |-> ToPrevious(PickList[i])])

\* two candidates, two previous points, and the second candidate is the nearer
C9_Witness ==
  /\ AtPick
  /\ HasPrevious(PickParam, cit[1])
  /\ Len(PickList) >= 2
  /\ Len(itsPreviousCoordinates[PickParam][cit[1]]) >= 2
  /\ Picked = 2

(* C10: when PreviousChoice has no entry for (g, s) and a bounding box is   *)
(* configured, chooseOne returns the candidate with the least               *)
(* min(|x-x1|, |x-x2|, |y-y1|, |y-y2|), the one added first among equals;   *)
(* and with the box (0,0,100,100), no previous frame, the distances as      *)
(* constructed and the candidates (50,50) then (1,1) of (group 1, subkey 1) *)
(* chooseLabels returns exactly {(1,1)}.                                    *)
C10_ClosestToBorder ==
  /\ (AtPick /\ ~HasPrevious(PickParam, cit[1]) /\ itHasBBox) =>
       LET ToBorder(c) == Least({ Abs(c[1] - itsBBox[1]), Abs(c[1] - itsBBox[3]),
                                  Abs(c[2] - itsBBox[2]), Abs(c[2] - itsBBox[4]) })
       IN IsEarliestLeast(Picked, [i \in 1..Len(PickList) |-> ToBorder(PickList[i])])
  /\ ( /\ Returned
       /\ itHasBBox
       /\ itsBBox = <<0, 0, 100, 100>>
       /\ itsPreviousCoordinates = EmptyMap
       /\ itsMinDistanceToSameValue = DefaultMinDistanceToSameValue
       /\ taken = (1 :> (1 :> << <<50, 50>>, <<1, 1>> >>)) )
     => itsCurrentCoordinates = (1 :> (1 :> << <<1, 1>> >>))

C10_Witness ==
  /\ Returned
  /\ itHasBBox
  /\ itsBBox = <<0, 0, 100, 100>>
  /\ taken = (1 :> (1 :> << <<50, 50>>, <<1, 1>> >>))
  /\ itsCurrentCoordinates = (1 :> (1 :> << <<1, 1>> >>))

(* C11: when PreviousChoice has no entry for (g, s) and no bounding box is   *)
(* configured, chooseOne returns the first candidate of the list, in the    *)
(* order of the add calls.                                                  *)
C11_FirstInOrder ==
  (AtPick /\ ~HasPrevious(PickParam, cit[1]) /\ ~itHasBBox) => Picked = 1

\* two different candidates are left, and a previous frame exists for
\* another contour only
C11_Witness ==
  /\ AtPick
  /\ ~HasPrevious(PickParam, cit[1])
  /\ ~itHasBBox
  /\ Len(PickList) >= 2
  /\ PickList[1] # PickList[2]
  /\ itsPreviousCoordinates # EmptyMap
  /\ Picked = 1

\* a step of chooseLabels that accepts a point
Accepts == pc = "for" /\ choices' # choices

\* the step by which chooseLabels returns
Returns == pc = "while" /\ pc' = "idle" /\ outcome' = "ok"

\* the point accepted by a step that accepts one for (g, s)
Accepted(g, s) == choices'[g][s][Len(choices'[g][s])]

(* C12: removeCandidates(candidates, chosen, g, s) removes a remaining      *)
(* candidate c of (g2, s2) if and only if distance(chosen, c) is strictly   *)
(* below minSame when g2 = g and s2 = s, minDifferentSubkey when g2 = g and *)
(* s2 # s, minDifferentGroup when g2 # g; a candidate at exactly the        *)
(* threshold is kept.  And with group 1, subkey 1 = [(0,0), (10,10)],       *)
(* subkey 2 = [(5,5)], minSame = 20, minDifferentSubkey = 1, no previous    *)
(* frame and no box, chooseLabels returns {1: {1: [(0,0)], 2: [(5,5)]}}.    *)
(* The code does not guarantee it: the candidates scanned after the chosen  *)
(* element was erased are compared with a dangling reference (see C1).      *)
C12_RemoveCandidates ==
  [][ /\ Accepts =>
           LET g == PickParam
               s == cit[1]
               TooClose(g2, s2, c) ==
                 LET t == MinSeparation(g, s, g2, s2)
                 IN t > 0 /\ Dist2(Accepted(g, s), c) < t * t
           IN candidates' =
                [g2 \in DOMAIN candidates |->
                  [s2 \in DOMAIN candidates[g2] |->
                     SelectSeq(candidates[g2][s2], LAMBDA c : ~TooClose(g2, s2, c))]]
      /\ ( /\ Returns
           /\ taken = (1 :> (1 :> << <<0, 0>>, <<10, 10>> >> @@ 2 :> << <<5, 5>> >>))
           /\ itsMinDistanceToSameValue = 20
           /\ itsMinDistanceToDifferentValue = 1
           /\ itsPreviousCoordinates = EmptyMap
           /\ ~itHasBBox )
         => itsCurrentCoordinates' =
              (1 :> (1 :> << <<0, 0>> >> @@ 2 :> << <<5, 5>> >>)) ]_vars

\* the temporal-bias scenario: chooseLabels has returned from the candidates
\* (0,0) then (100,100) of (group 1, subkey 5), with the previous choice
\* {(2,2)} for it and minSame = 1
TemporalBias ==
  /\ Returned
  /\ itsPreviousCoordinates = (1 :> (5 :> << <<2, 2>> >>))
  /\ taken = (1 :> (5 :> << <<0, 0>>, <<100, 100>> >>))
  /\ itsMinDistanceToSameValue = 1

C14_NextTime ==
  [][ Calls("nextTime") =>
        /\ itsPreviousCoordinates' = itsCurrentCoordinates
        /\ itsCurrentCoordinates' = EmptyMap
        /\ outcome' = "ok"
        /\ UNCHANGED <<config, itsActiveParameter>> ]_vars

\* the table rotated holds two points that are too close to each other:
\* candidates as they were added
C14_Witness ==
  /\ call = <<"nextTime">>
  /\ itsCurrentCoordinates = EmptyMap
  /\ Count(itsPreviousCoordinates) >= 2
  /\ ~PairwiseCompliant(itsPreviousCoordinates)

NoPoints ==
  /\ Count(itsCurrentCoordinates) = 0
  /\ Count(itsPreviousCoordinates) = 0
  /\ Count(candidates) = 0
  /\ Count(choices) = 0

(* C16 as claimed: once a candidate was stored, a state in which            *)
(* boundingBox or a minDistance setter succeeds (both tables empty) is      *)
(* reached again only through clear(): no sequence of add, parameter,       *)
(* chooseLabels and nextTime calls returns to it.                           *)
C16_OnlyThroughClear == (stored /\ pc = "idle") => ~empty

(* C16 amended: once a candidate was stored, the state in which a setter    *)
(* succeeds is reached again only through clear(), or through a nextTime()  *)
(* call made while CandidateTable is empty (the second of two nextTime      *)
(* calls in a row, or the one after a frame without stored candidates),     *)
(* which rotates the last points out; no sequence of add, parameter and     *)
(* chooseLabels calls returns to it; and a setter succeeds only when no     *)
(* point is held.                                                           *)
C16_Lifecycle ==
  [][ /\ (~NoPoints /\ NoPoints')
           => (Calls("clear") \/ (Calls("nextTime") /\ itsCurrentCoordinates = EmptyMap))
      /\ (pc = "idle" /\ call'[1] \in Setters /\ outcome' = "ok") => NoPoints ]_vars

\* a setter has succeeded after a candidate was stored, with no clear() since
C16_Witness ==
  /\ stored
  /\ call[1] \in Setters
  /\ outcome = "ok"
  /\ pc = "idle"
  /\ empty

\* neither table holds a point
NothingStored == Count(itsCurrentCoordinates) = 0 /\ Count(itsPreviousCoordinates) = 0

(* C17: clear(), called in any state, leaves CandidateTable and             *)
(* PreviousChoice empty, so that empty() is true, and ActiveGroup unset;    *)
(* and empty() is true exactly when neither table holds a point.            *)
C17_ClearAndEmpty ==
  [][ /\ Calls("clear") =>
           /\ itsCurrentCoordinates' = EmptyMap
           /\ itsPreviousCoordinates' = EmptyMap
           /\ empty'
           /\ itsActiveParameter' = badparameter
           /\ outcome' = "ok"
      /\ empty <=> NothingStored
      /\ empty' <=> NothingStored' ]_vars

\* clear() was called with a box and a distance configured, and they are kept
C17_Witness ==
  /\ call = <<"clear">>
  /\ empty
  /\ itsActiveParameter = badparameter
  /\ itHasBBox
  /\ itsMinDistanceToSameValue # DefaultMinDistanceToSameValue

\* the least squared distance from c to a point of the previous list of (g, s)
ToPreviousOf(g, s, c) ==
  Least({ Dist2(c, itsPreviousCoordinates[g][s][k]) :
            k \in 1..Len(itsPreviousCoordinates[g][s]) })

\* a step of chooseLabels that accepts the first point of (g, s) in a frame
\* that has a previous list for (g, s)
AcceptsFirstAfterRotation ==
  /\ Accepts
  /\ HasPrevious(PickParam, cit[1])
  /\ <<PickParam, cit[1]>> \notin Lists(choices)

(* C18 as claimed: when the previous frame left a list for (g, s), the      *)
(* first point accepted for (g, s) is, of all the candidates added for      *)
(* (g, s) in this frame, one that is closest to a point of that list.       *)
C18_ClosestOfFrame ==
  [][ AcceptsFirstAfterRotation =>
        LET g == PickParam
            s == cit[1]
        IN \A j \in 1..Len(taken[g][s]) :
             ToPreviousOf(g, s, Accepted(g, s)) <= ToPreviousOf(g, s, taken[g][s][j]) ]_vars

(* C18 amended: when the previous frame left a list for (g, s), the first   *)
(* point accepted for (g, s) is, of the candidates of (g, s) that are still *)
(* left when the pass reaches (g, s), the one closest to a point of that    *)
(* list (the earliest added among equals); candidates of (g, s) erased by   *)
(* points accepted before, for a smaller subkey or group, do not count.     *)
(* Frame 1 with candidate (2,2), nextTime, frame 2 with candidates (0,0),   *)
(* (100,100) for (1, 5) alone gives (0,0) as the first accepted point.      *)
C18_FrameRotation ==
  [][ /\ AcceptsFirstAfterRotation =>
           LET g == PickParam
               s == cit[1]
               left == candidates[g][s]
           IN \E i \in 1..Len(left) :
                /\ Accepted(g, s) = left[i]
                /\ IsEarliestLeast(i, [j \in 1..Len(left) |-> ToPreviousOf(g, s, left[j])])
      /\ ( /\ Accepts
           /\ choices = EmptyMap
           /\ itsPreviousCoordinates = (1 :> (5 :> << <<2, 2>> >>))
           /\ taken = (1 :> (5 :> << <<0, 0>>, <<100, 100>> >>)) )
         => Accepted(1, 5) = <<0, 0>> ]_vars

\* the pass reaches (g, s) after the candidate nearest to the previous
\* choice was erased because of a point accepted for another subkey
C18_Witness ==
  /\ AtPick
  /\ HasPrevious(PickParam, cit[1])
  /\ <<PickParam, cit[1]>> \notin Lists(choices)
  /\ choices # EmptyMap
  /\ PairwiseCompliant(itsPreviousCoordinates)
  /\ \E j \in 1..Len(taken[PickParam][cit[1]]) :
       ToPreviousOf(PickParam, cit[1], taken[PickParam][cit[1]][j])
         < ToPreviousOf(PickParam, cit[1], PickList[Picked])

(***************************************************************************)
(* A second engine instance, given the same tables and configuration: the   *)
(* run of chooseLabels in which every read of the chosen point yields the   *)
(* value the point had (the build in which freed storage is left alone).    *)
(* TwinWhile is the while loop from its test, TwinFor the for loop from     *)
(* iterator it.                                                             *)
(***************************************************************************)
RECURSIVE TwinWhile(_, _)
RECURSIVE TwinFor(_, _, _)
TwinWhile(theCandidates, theChoices) ==
  IF theCandidates = EmptyMap THEN theChoices
  ELSE TwinFor(theCandidates, theChoices, BeginIt(theCandidates[FirstParam(theCandidates)]))

TwinFor(theCandidates, theChoices, it) ==
  IF it = <<>> THEN TwinWhile(removeEmpties(theCandidates), theChoices)
  ELSE LET param    == FirstParam(theCandidates)
           contours == theCandidates[param]
           value    == it[1]
           best     == chooseOne(contours[value], param, value)
           cc       == AtOrDefault(theChoices, param, EmptyMap)
           coords   == AtOrDefault(cc, value, <<>>)
       IN IF contours[value] = <<>>
            THEN TwinFor(theCandidates, theChoices, NextIt(contours, value))
            ELSE TwinFor(removeCandidates(theCandidates, best, param, value,
                                          contours[value][best]),
                         Put(theChoices, param,
                             Put(cc, value, Append(coords, contours[value][best]))),
                         NextIt(contours, value))

(* C19: determinism.  Two engine instances with the same box, distances and *)
(* PreviousChoice that receive the same parameter and add calls return the  *)
(* same table from chooseLabels, the order inside every list included: the  *)
(* table an instance returns is the table its twin returns.                 *)
(* The code does not guarantee it: what removeCandidates erases after the   *)
(* chosen element depends on what the dangling reference yields (see C1).   *)
C19_Determinism == Returned => itsCurrentCoordinates = TwinWhile(taken, EmptyMap)

\* the number of candidates a table holds for group g
CountOf(tab, g) == IF g \in DOMAIN tab THEN SumLens(tab[g], DOMAIN tab[g]) ELSE 0

PassOver == pc = "for" /\ cit = <<>>

(* C21: as the class documentation describes the algorithm ("while there    *)
(* are candidate coordinates, loop over parameters, loop over contour       *)
(* values, select label"), each iteration of the outer loop visits every    *)
(* parameter that still has candidates and selects one label for each of    *)
(* its contour values; so when an iteration is over, every parameter that   *)
(* still has candidates has had a label selected.                           *)
(* The code visits candidates.begin() only: the other parameters wait until *)
(* the first one has no candidate left.                                     *)
C21_EveryParameterVisited ==
  PassOver =>
    \A h \in DOMAIN candidates : CountOf(candidates, h) > 0 => CountOf(choices, h) > 0

(* C22: in the draw loop the locator is configured once, before any frame  *)
(* is processed: boundingBox is never called in a state where the nextTime  *)
(* of a previous frame has left PreviousChoice non-empty, and no frame of a *)
(* run of several frames fails with the "cannot change bounding box" error. *)
(* do_draw_contours calls boundingBox at the start of every frame: the      *)
(* frame after the first one that got a label fails.                        *)
C22_ConfiguredOnce ==
  [][ Calls("boundingBox") =>
        (itsPreviousCoordinates = EmptyMap /\ outcome' = "ok") ]_vars

\* the for loop of chooseLabels stands at a contour value
Visiting == pc = "for" /\ cit # <<>>

(* C23: within one pass of chooseLabels over the current group the subkeys  *)
(* are visited in ascending order; a subkey that has candidates when it is  *)
(* visited receives exactly one point, taken from its list and appended to  *)
(* Choice[g][s], and a subkey emptied by an earlier pick of the pass        *)
(* receives none; so a subkey that is served has as many points as every    *)
(* larger subkey had before, and at most one fewer than a smaller one: its  *)
(* k-th point is not accepted before the k-th pass over g.                  *)
C23_OnePerSubkeyAndPass ==
  [][ Visiting =>
        LET g == PickParam
            s == cit[1]
            before == ListAt(choices, g, s)
        IN /\ cit' = <<>> \/ cit'[1] > s
           /\ candidates[g][s] = <<>> => choices' = choices
           /\ candidates[g][s] # <<>> =>
                /\ \E i \in 1..Len(candidates[g][s]) :
                     choices'[g][s] = before \o << candidates[g][s][i] >>
                /\ \A k \in Lists(choices) \ {<<g, s>>} :
                     choices'[k[1]][k[2]] = choices[k[1]][k[2]]
                /\ Lists(choices') = Lists(choices) \cup {<<g, s>>}
                /\ \A s2 \in DOMAIN AtOrDefault(choices, g, EmptyMap) :
                     /\ s2 < s => Len(choices[g][s2]) <= Len(before) + 1
                     /\ s2 > s => Len(choices[g][s2]) <= Len(before) ]_vars

\* a subkey that had candidates when chooseLabels was called is visited
\* after an earlier pick of the pass has emptied it
C23_Witness ==
  /\ Visiting
  /\ candidates[PickParam][cit[1]] = <<>>
  /\ <<PickParam, cit[1]>> \notin Lists(choices)
  /\ CountOf(choices, PickParam) >= 1
  /\ Len(taken[PickParam][cit[1]]) >= 1

(* C24: the "Internal error in LabelLocator::chooseLabels()" exception is   *)
(* unreachable: in every reachable state chooseOne, called on a non-empty   *)
(* candidate list, returns an element of that list, whichever of the three  *)
(* selection rules applies, and no call ends with the internal error.       *)
C24_NoInternalError ==
  /\ outcome # "InternalError"
  /\ AtPick => Picked \in 1..Len(PickList)

\* chooseOne is called under the previous-frame rule with a box configured
\* and several candidates
C24_Witness ==
  /\ AtPick
  /\ HasPrevious(PickParam, cit[1])
  /\ itHasBBox
  /\ Len(PickList) >= 2
  /\ Picked \in 1..Len(PickList)

\* the candidate c of (g, s) is accounted for by the table tab: it is in the
\* list of (g, s), or strictly closer than the applicable distance to a point
\* of tab
AccountedFor(tab, g, s, c) ==
  \/ \E i \in 1..Len(ListAt(tab, g, s)) : tab[g][s][i] = c
  \/ \E e \in Entries(tab) :
       ~AtLeastApart(tab[e[1]][e[2]][e[3]], c, MinSeparation(e[1], e[2], g, s))

(* C25: the table chooseLabels returns is maximal: every candidate that was *)
(* in CandidateTable before the call is in the returned table under its own *)
(* (Group, Subkey), or lies strictly closer than the applicable distance to *)
(* some returned point; no candidate is dropped for another reason.         *)
(* The code does not guarantee it: after the chosen element is erased,      *)
(* removeCandidates compares the later candidates with a dangling           *)
(* reference (see C1), and a candidate far from every returned point can be *)
(* erased.                                                                  *)
C25_Maximal ==
  Returned =>
    \A e \in Entries(taken) :
      AccountedFor(itsCurrentCoordinates, e[1], e[2], taken[e[1]][e[2]][e[3]])

\* how many elements of the list equal p
Multiplicity(list, p) == Cardinality({ i \in 1..Len(list) : list[i] = p })

(* C26: the table chooseLabels returns is a sub-collection of the           *)
(* candidates: every point of Choice[g][s] was in CandidateTable[g][s]      *)
(* before the call, with no greater multiplicity, and the returned table is *)
(* empty exactly when CandidateTable was empty.                             *)
C26_SubCollection ==
  Returned =>
    /\ \A e \in Entries(itsCurrentCoordinates) :
         LET p == itsCurrentCoordinates[e[1]][e[2]][e[3]]
         IN /\ Multiplicity(ListAt(taken, e[1], e[2]), p) >= 1
            /\ Multiplicity(itsCurrentCoordinates[e[1]][e[2]], p)
                 <= Multiplicity(ListAt(taken, e[1], e[2]), p)
    /\ (itsCurrentCoordinates = EmptyMap) <=> (taken = EmptyMap)
    /\ (Count(itsCurrentCoordinates) = 0) <=> (Count(taken) = 0)

\* chooseLabels has returned some of the candidates of a table that held the
\* same point twice in one list, with another previous table in place
C26_Witness ==
  /\ Returned
  /\ Count(itsCurrentCoordinates) >= 1
  /\ Count(itsCurrentCoordinates) < Count(taken)
  /\ \E e \in Entries(taken) :
       Multiplicity(taken[e[1]][e[2]], taken[e[1]][e[2]][e[3]]) >= 2
  /\ itsPreviousCoordinates # EmptyMap
  /\ itsPreviousCoordinates # taken

\* no group of the table is without subkeys, no list of it without points
NoEmptyEntries(tab) ==
  \A g \in DOMAIN tab :
    /\ DOMAIN tab[g] # {}
    /\ \A s \in DOMAIN tab[g] : tab[g][s] # <<>>

(* C27: in every reachable state CandidateTable and PreviousChoice hold no  *)
(* Group with zero Subkeys and no (Group, Subkey) with an empty list of     *)
(* points; hence whenever PreviousChoice[g][s] exists, the previous-frame   *)
(* rule has at least one reference point.                                   *)
C27_NoEmptyEntries ==
  /\ NoEmptyEntries(itsCurrentCoordinates)
  /\ NoEmptyEntries(itsPreviousCoordinates)
  /\ (AtPick /\ HasPrevious(PickParam, cit[1]))
       => Len(itsPreviousCoordinates[PickParam][cit[1]]) >= 1

\* chooseLabels has erased every candidate of a (Group, Subkey), in a frame
\* that has a previous one: the subkey is gone from the table returned
C27_Witness ==
  /\ Returned
  /\ itsPreviousCoordinates # EmptyMap
  /\ \E g \in DOMAIN taken : \E s \in DOMAIN taken[g] :
       s \notin DOMAIN AtOrDefault(itsCurrentCoordinates, g, EmptyMap)
  /\ itsCurrentCoordinates # EmptyMap

(* C28: chooseLabels is idempotent: called a second time with no add,      *)
(* nextTime or clear in between, and minSame > 0, it returns a table equal  *)
(* to the first result, with the same points in the same order in every     *)
(* (Group, Subkey) list.                                                    *)
(* The code does not guarantee it: the second call compares the candidates  *)
(* scanned after the chosen element with a dangling reference (see C1) and  *)
(* can erase points of the first result; and a first result that the stale  *)
(* read left non-compliant loses points in a second call that reads the old *)
(* value.                                                                   *)
C28_Idempotent ==
  [][ (Returns /\ chosen /\ itsMinDistanceToSameValue > 0)
        => itsCurrentCoordinates' = taken ]_vars

(* C29: clear(), nextTime() and chooseLabels() leave the bounding box and   *)
(* the three distances unchanged, and nextTime() and chooseLabels() also    *)
(* leave ActiveGroup unchanged, so that an add() issued after nextTime()    *)
(* without a new parameter() call succeeds and stores under the group that  *)
(* was active in the previous frame (when one was, for a point the box      *)
(* admits).                                                                 *)
C29_FrameEffects ==
  [][ /\ (Calls("clear") \/ Calls("nextTime") \/ Calls("chooseLabels") \/ pc # "idle")
           => UNCHANGED config
      /\ (Calls("nextTime") \/ Calls("chooseLabels") \/ pc # "idle")
           => UNCHANGED itsActiveParameter
      /\ ( /\ Calls("add")
           /\ call = <<"nextTime">>
           /\ itsActiveParameter # badparameter
           /\ inside(call'[3], call'[4]) )
         => /\ outcome' = "ok"
            /\ itsCurrentCoordinates' =
                 (itsActiveParameter :> (call'[2] :> << <<call'[3], call'[4]>> >>)) ]_vars

\* a frame that begins with add(): its first point is stored under the group
\* of the previous frame, in the box configured before it
C29_Witness ==
  /\ call[1] = "add"
  /\ outcome = "ok"
  /\ itHasBBox
  /\ Count(itsCurrentCoordinates) = 1
  /\ DOMAIN itsCurrentCoordinates = {itsActiveParameter}
  /\ DOMAIN itsPreviousCoordinates = {itsActiveParameter}

\* a step that is the call find(n)
Finds(n) == files' = files /\ found' # <<>> /\ found'[1] = n /\ locator' = locator

(* C30: ArrowCache::find(name) reads the file only on the first successful  *)
(* call for a name: later calls for the same name return the stored         *)
(* contents without reading, whatever the file holds by then, until clear() *)
(* is called; and a call that fails to open the file leaves the cache       *)
(* contents unchanged.                                                      *)
C30_ReadOnce ==
  [][ \A n \in ArrowNames :
        /\ reads[n] <= 1
        /\ (n \in DOMAIN itsCache) <=> (reads[n] = 1)
        /\ Finds(n) =>
             IF n \in DOMAIN itsCache
               THEN /\ found' = <<n, "cached", itsCache[n]>>
                    /\ UNCHANGED <<itsCache, reads>>
               ELSE IF files[n] = NoFile
                 THEN /\ found'[2] = "CouldNotOpen"
                      /\ UNCHANGED <<itsCache, reads>>
                 ELSE /\ found' = <<n, "read", files[n]>>
                      /\ reads' = [reads EXCEPT ![n] = 1]
                      /\ itsCache' = Put(itsCache, n, files[n]) ]_vars

\* find() has returned the stored contents of a file that holds something
\* else by now, the other file being absent and asked for before
C30_Witness ==
  /\ found # <<>>
  /\ found[2] = "cached"
  /\ files[found[1]] \in ArrowPaths
  /\ files[found[1]] # found[3]
  /\ itsCache = (found[1] :> found[3])
  /\ \E n \in ArrowNames : n # found[1] /\ files[n] = NoFile

=============================================================================
